---- MODULE Spec2Model ----
(***************************************************************************)
(* Model of the two Python stages of the pipex multi-language example:     *)
(*   scripts/python/analyze.py   (python-analyze,   the Enrichment Stage)  *)
(*   scripts/python/transform.py (python-transform, the Aggregation Stage) *)
(*                                                                         *)
(* A Python dict is an insertion-ordered mapping; it is modelled as a      *)
(* sequence of [key, val] records with pairwise distinct keys.  A dict     *)
(* whose keys are fixed field names and that the code indexes with d["k"]  *)
(* (the report, one stats entry) is a function whose DOMAIN is the set of  *)
(* keys present, so that a KeyError is exactly "k \notin DOMAIN d".        *)
(* A file is a record: NoFile, a partially written file, or a complete     *)
(* file holding a document.  avgScore values are integers.                 *)
(***************************************************************************)
EXTENDS Integers, Sequences, FiniteSets, TLC

\* ---------------------------------------------------------------- bounds
MaxRanked == 3

\* ---------------------------------------------------------- input values
Cats == {"A", "B"}
Languages == {"Rust", "Go"}
Scores == {79, 80, 89, 90}
Counts == {0, 3}

VARIABLES
    appTestFile,   \* /app/_write_test
    reportFile,    \* /input/node-transform/report.json
    enrichedYaml,  \* /output/enriched.yaml of python-analyze
    enrichedJson,  \* /output/enriched.json of python-analyze, the
                   \* /input/python-analyze/enriched.json of python-transform
    summaryYaml,   \* /output/summary.yaml of python-transform
    summaryJson,   \* /output/summary.json of python-transform
    pcA,           \* position of analyze.py
    report,        \* analyze.py: report
    enriched,      \* analyze.py: enriched
    pcT,           \* position of transform.py
    enriched_in,   \* transform.py: enriched
    summary,       \* transform.py: summary
    clock          \* datetime.now(timezone.utc)

vars == <<appTestFile, reportFile, enrichedYaml, enrichedJson, summaryYaml,
          summaryJson, pcA, report, enriched, pcT, enriched_in, summary, clock>>

\* ------------------------------------------------------------ Python dict
RECURSIVE DictHas(_, _)
DictHas(d, k) ==
    IF d = <<>> THEN FALSE
    ELSE IF Head(d).key = k THEN TRUE ELSE DictHas(Tail(d), k)

RECURSIVE DictGet(_, _, _)
DictGet(d, k, default) ==
    IF d = <<>> THEN default
    ELSE IF Head(d).key = k THEN Head(d).val ELSE DictGet(Tail(d), k, default)

RECURSIVE DictSet(_, _, _)
DictSet(d, k, v) ==
    IF d = <<>> THEN <<[key |-> k, val |-> v]>>
    ELSE IF Head(d).key = k THEN <<[key |-> k, val |-> v]>> \o Tail(d)
    ELSE <<Head(d)>> \o DictSet(Tail(d), k, v)

\* ------------------------------------------------------------------ files
NoFile == [exists |-> FALSE]
PartialFile(fmt) == [exists |-> TRUE, complete |-> FALSE, format |-> fmt]
TextFile(text) ==
    [exists |-> TRUE, complete |-> TRUE, format |-> "text", doc |-> text]
JsonDump(doc) ==
    [exists |-> TRUE, complete |-> TRUE, format |-> "json", doc |-> doc]
YamlDump(doc) ==
    [exists |-> TRUE, complete |-> TRUE, format |-> "yaml", doc |-> doc]
JsonLoad(file) == file.doc
IsoFormat(t) == <<"utc", t>>

\* --------------------------------------------------------------- analyze
\* Variant: the upper boundary taken as exclusive.
Rating_exclusive(avgScore) ==
    IF avgScore > 90 THEN "excellent"
    ELSE IF avgScore >= 80 THEN "good" ELSE "fair"

Rating(avgScore) ==
    IF avgScore >= 90 THEN "excellent"
    ELSE IF avgScore >= 80 THEN "good" ELSE "fair"

\* An exception that ends the run, as a value.
Raise(exc, what) == [raised |-> exc, what |-> what]
IsRaised(x) == "raised" \in DOMAIN x

\* Variant: a missing count is replaced by a default, stats.get("count", 0).
CategoryEntry_default(stats) ==
    IF "avgScore" \notin DOMAIN stats THEN Raise("KeyError", "avgScore")
    ELSE [count |-> IF "count" \in DOMAIN stats THEN stats["count"] ELSE 0,
          avgScore |-> stats["avgScore"],
          rating |-> Rating(stats["avgScore"])]

\* The value of one enriched["categories"][cat]; stats["count"] and
\* stats["avgScore"] raise KeyError when the key is missing.
CategoryEntry(stats) ==
    IF "count" \notin DOMAIN stats THEN Raise("KeyError", "count")
    ELSE IF "avgScore" \notin DOMAIN stats THEN Raise("KeyError", "avgScore")
    ELSE [count |-> stats["count"],
          avgScore |-> stats["avgScore"],
          rating |-> Rating(stats["avgScore"])]

\* Variant: the first category is processed last (keys out of input order).
RECURSIVE BuildCategories_reversed(_, _)
BuildCategories_reversed(items, acc) ==
    IF items = <<>> THEN acc
    ELSE DictSet(BuildCategories_reversed(Tail(items), acc),
                 Head(items).key, CategoryEntry(Head(items).val))

RECURSIVE BuildCategories(_, _)
BuildCategories(items, acc) ==
    IF items = <<>> THEN acc
    ELSE BuildCategories(Tail(items),
             DictSet(acc, Head(items).key, CategoryEntry(Head(items).val)))

\* Variant: each language is inserted at the front of its group.
RECURSIVE GroupLanguages_prepend(_, _)
GroupLanguages_prepend(ranked, acc) ==
    IF ranked = <<>> THEN acc
    ELSE LET lang == Head(ranked)
             cat == lang.category
             acc1 == IF ~DictHas(acc, cat) THEN DictSet(acc, cat, <<>>) ELSE acc
         IN GroupLanguages_prepend(Tail(ranked),
                DictSet(acc1, cat, <<lang.language>> \o DictGet(acc1, cat, <<>>)))

RECURSIVE GroupLanguages(_, _)
GroupLanguages(ranked, acc) ==
    IF ranked = <<>> THEN acc
    ELSE LET lang == Head(ranked)
             cat == lang.category
             acc1 == IF ~DictHas(acc, cat) THEN DictSet(acc, cat, <<>>) ELSE acc
         IN GroupLanguages(Tail(ranked),
                DictSet(acc1, cat, Append(DictGet(acc1, cat, <<>>), lang.language)))

\* Lines 21-41 of analyze.py: the enriched document, or the exception raised.
Enrich(rep, now) ==
    IF "summary" \notin DOMAIN rep THEN Raise("KeyError", "summary")
    ELSE IF \E i \in 1..Len(rep["summary"]) :
                IsRaised(CategoryEntry(rep["summary"][i].val))
    THEN Raise("KeyError", "stats")
    ELSE IF "ranked" \notin DOMAIN rep THEN Raise("KeyError", "ranked")
    ELSE [generatedBy |-> "python-analyze",
          timestamp |-> IsoFormat(now),
          sourceStep |-> "node-transform",
          categories |-> BuildCategories(rep["summary"], <<>>),
          languagesByCategory |-> GroupLanguages(rep["ranked"], <<>>)]

\* ------------------------------------------------------------- transform
\* Variant: the groups are counted, not their languages.
RECURSIVE SumLens_groups(_)
SumLens_groups(d) ==
    IF d = <<>> THEN 0 ELSE 1 + SumLens_groups(Tail(d))

RECURSIVE SumLens(_)
SumLens(d) ==
    IF d = <<>> THEN 0 ELSE Len(Head(d).val) + SumLens(Tail(d))

\* Variant: a later item with an equal key replaces the best so far.
RECURSIVE MaxFrom_last(_, _)
MaxFrom_last(best, items) ==
    IF items = <<>> THEN best
    ELSE IF Head(items).val.avgScore >= best.val.avgScore
         THEN MaxFrom_last(Head(items), Tail(items))
         ELSE MaxFrom_last(best, Tail(items))

\* Python's max(iterable, key=...): the first item whose key is maximal.
RECURSIVE MaxFrom(_, _)
MaxFrom(best, items) ==
    IF items = <<>> THEN best
    ELSE IF Head(items).val.avgScore > best.val.avgScore
         THEN MaxFrom(Head(items), Tail(items))
         ELSE MaxFrom(best, Tail(items))

PyMax(items) == MaxFrom(Head(items), Tail(items))

AllCategoriesEntry(info, cat, languagesByCategory) ==
    [rating |-> info.rating,
     avgScore |-> info.avgScore,
     languages |-> DictGet(languagesByCategory, cat, <<>>)]

\* Variant: categories without ranked languages are left out.
RECURSIVE AllCategories_skip(_, _, _)
AllCategories_skip(items, languagesByCategory, acc) ==
    IF items = <<>> THEN acc
    ELSE AllCategories_skip(Tail(items), languagesByCategory,
             IF DictHas(languagesByCategory, Head(items).key)
             THEN DictSet(acc, Head(items).key,
                          AllCategoriesEntry(Head(items).val, Head(items).key,
                                             languagesByCategory))
             ELSE acc)

RECURSIVE AllCategories(_, _, _)
AllCategories(items, languagesByCategory, acc) ==
    IF items = <<>> THEN acc
    ELSE AllCategories(Tail(items), languagesByCategory,
             DictSet(acc, Head(items).key,
                     AllCategoriesEntry(Head(items).val, Head(items).key,
                                        languagesByCategory)))

StepsCompleted == <<"node-analyze", "node-transform", "python-analyze", "python-transform">>

\* Lines 12-35 of transform.py: the summary document, or the exception raised
\* (max() of an empty sequence raises ValueError).
Summarize(enr, now) ==
    LET total_languages == SumLens(enr.languagesByCategory)
        best_category == PyMax(enr.categories)
    IN IF enr.categories = <<>> THEN Raise("ValueError", "max")
       ELSE
       [generatedBy |-> "python-transform",
        timestamp |-> IsoFormat(now),
        pipeline |-> "multi-lang-example",
        stepsCompleted |-> StepsCompleted,
        totalLanguages |-> total_languages,
        bestCategory |-> [name |-> best_category.key,
                          avgScore |-> best_category.val.avgScore,
                          rating |-> best_category.val.rating],
        allCategories |-> AllCategories(enr.categories, enr.languagesByCategory, <<>>)]

\* ----------------------------------------------------------------- inputs
\* One stats entry of report["summary"]: any subset of its two keys present.
StatsSet ==
    UNION {{f \in [D -> Counts \cup Scores] :
               /\ "count" \in D => f["count"] \in Counts
               /\ "avgScore" \in D => f["avgScore"] \in Scores} :
           D \in SUBSET {"count", "avgScore"}}

DistinctKeys(d) == \A i, j \in 1..Len(d) : d[i].key = d[j].key => i = j

Summaries ==
    {s \in UNION {[1..n -> [key : Cats, val : StatsSet]] : n \in 0..Cardinality(Cats)} :
        DistinctKeys(s)}

Rankeds ==
    UNION {[1..n -> [language : Languages, category : Cats]] : n \in 0..MaxRanked}

MkReport(hasSummary, s, hasRanked, r) ==
    [k \in {x \in {"summary", "ranked"} :
               (x = "summary" => hasSummary) /\ (x = "ranked" => hasRanked)}
        |-> IF k = "summary" THEN s ELSE r]

Init ==
    /\ appTestFile = NoFile
    /\ \E hasSummary \in BOOLEAN, hasRanked \in BOOLEAN, s \in Summaries, r \in Rankeds :
           /\ hasSummary \/ s = <<>>
           /\ hasRanked \/ r = <<>>
           /\ reportFile = JsonDump(MkReport(hasSummary, s, hasRanked, r))
    /\ enrichedYaml = NoFile
    /\ enrichedJson = NoFile
    /\ summaryYaml = NoFile
    /\ summaryJson = NoFile
    /\ pcA = "probe"
    /\ report = <<>>
    /\ enriched = <<>>
    /\ pcT = "start"
    /\ enriched_in = <<>>
    /\ summary = <<>>
    /\ clock = 0

\* ------------------------------------------------------ analyze.py steps
\* open("/app/_write_test", "w") raises OSError: /app is read-only.
AnalyzeProbeReadOnly ==
    /\ pcA = "probe"
    /\ pcA' = "read"
    /\ UNCHANGED <<appTestFile, reportFile, enrichedYaml, enrichedJson, summaryYaml,
                   summaryJson, report, enriched, pcT, enriched_in, summary, clock>>

\* Variant: the probe write succeeds and the run continues (no SystemExit).
AnalyzeProbeWritable_continue ==
    /\ pcA = "probe"
    /\ appTestFile' = TextFile("test")
    /\ pcA' = "read"
    /\ UNCHANGED <<reportFile, enrichedYaml, enrichedJson, summaryYaml,
                   summaryJson, report, enriched, pcT, enriched_in, summary, clock>>

\* The probe write succeeds: the file is left behind and SystemExit(1) ends the run.
AnalyzeProbeWritable ==
    /\ pcA = "probe"
    /\ appTestFile' = TextFile("test")
    /\ pcA' = "failed"
    /\ UNCHANGED <<reportFile, enrichedYaml, enrichedJson, summaryYaml,
                   summaryJson, report, enriched, pcT, enriched_in, summary, clock>>

AnalyzeRead ==
    /\ pcA = "read"
    /\ report' = JsonLoad(reportFile)
    /\ pcA' = "derive"
    /\ UNCHANGED <<appTestFile, reportFile, enrichedYaml, enrichedJson, summaryYaml,
                   summaryJson, enriched, pcT, enriched_in, summary, clock>>

\* open(input_path) raises OSError.
AnalyzeReadFails ==
    /\ pcA = "read"
    /\ pcA' = "failed"
    /\ UNCHANGED <<appTestFile, reportFile, enrichedYaml, enrichedJson, summaryYaml,
                   summaryJson, report, enriched, pcT, enriched_in, summary, clock>>

AnalyzeEnrich ==
    /\ pcA = "derive"
    /\ ~IsRaised(Enrich(report, clock))
    /\ enriched' = Enrich(report, clock)
    /\ clock' = clock + 1
    /\ pcA' = "writeYaml"
    /\ UNCHANGED <<appTestFile, reportFile, enrichedYaml, enrichedJson, summaryYaml,
                   summaryJson, report, pcT, enriched_in, summary>>

\* report["summary"], report["ranked"], stats["count"] or stats["avgScore"]
\* raises KeyError.
AnalyzeEnrichFails ==
    /\ pcA = "derive"
    /\ IsRaised(Enrich(report, clock))
    /\ pcA' = "failed"
    /\ UNCHANGED <<appTestFile, reportFile, enrichedYaml, enrichedJson, summaryYaml,
                   summaryJson, report, enriched, pcT, enriched_in, summary, clock>>

AnalyzeWriteYaml ==
    /\ pcA = "writeYaml"
    /\ enrichedYaml' = YamlDump(enriched)
    /\ pcA' = "writeJson"
    /\ UNCHANGED <<appTestFile, reportFile, enrichedJson, summaryYaml,
                   summaryJson, report, enriched, pcT, enriched_in, summary, clock>>

\* OSError from open (no file is created) or from the write (a partial file is left).
AnalyzeWriteYamlFails ==
    /\ pcA = "writeYaml"
    /\ \E opened \in BOOLEAN :
           enrichedYaml' = IF opened THEN PartialFile("yaml") ELSE enrichedYaml
    /\ pcA' = "failed"
    /\ UNCHANGED <<appTestFile, reportFile, enrichedJson, summaryYaml,
                   summaryJson, report, enriched, pcT, enriched_in, summary, clock>>

AnalyzeWriteJson ==
    /\ pcA = "writeJson"
    /\ enrichedJson' = JsonDump(enriched)
    /\ pcA' = "done"
    /\ UNCHANGED <<appTestFile, reportFile, enrichedYaml, summaryYaml,
                   summaryJson, report, enriched, pcT, enriched_in, summary, clock>>

AnalyzeWriteJsonFails ==
    /\ pcA = "writeJson"
    /\ \E opened \in BOOLEAN :
           enrichedJson' = IF opened THEN PartialFile("json") ELSE enrichedJson
    /\ pcA' = "failed"
    /\ UNCHANGED <<appTestFile, reportFile, enrichedYaml, summaryYaml,
                   summaryJson, report, enriched, pcT, enriched_in, summary, clock>>

\* ---------------------------------------------------- transform.py steps
\* python-transform is started once python-analyze has completed.
TransformRead ==
    /\ pcA = "done"
    /\ pcT = "start"
    /\ enriched_in' = JsonLoad(enrichedJson)
    /\ pcT' = "derive"
    /\ UNCHANGED <<appTestFile, reportFile, enrichedYaml, enrichedJson, summaryYaml,
                   summaryJson, pcA, report, enriched, summary, clock>>

TransformReadFails ==
    /\ pcA = "done"
    /\ pcT = "start"
    /\ pcT' = "failed"
    /\ UNCHANGED <<appTestFile, reportFile, enrichedYaml, enrichedJson, summaryYaml,
                   summaryJson, pcA, report, enriched, enriched_in, summary, clock>>

TransformSummarize ==
    /\ pcT = "derive"
    /\ ~IsRaised(Summarize(enriched_in, clock))
    /\ summary' = Summarize(enriched_in, clock)
    /\ clock' = clock + 1
    /\ pcT' = "writeYaml"
    /\ UNCHANGED <<appTestFile, reportFile, enrichedYaml, enrichedJson, summaryYaml,
                   summaryJson, pcA, report, enriched, enriched_in>>

\* max() of an empty sequence raises ValueError.
TransformSummarizeFails ==
    /\ pcT = "derive"
    /\ IsRaised(Summarize(enriched_in, clock))
    /\ pcT' = "failed"
    /\ UNCHANGED <<appTestFile, reportFile, enrichedYaml, enrichedJson, summaryYaml,
                   summaryJson, pcA, report, enriched, enriched_in, summary, clock>>

TransformWriteYaml ==
    /\ pcT = "writeYaml"
    /\ summaryYaml' = YamlDump(summary)
    /\ pcT' = "writeJson"
    /\ UNCHANGED <<appTestFile, reportFile, enrichedYaml, enrichedJson,
                   summaryJson, pcA, report, enriched, enriched_in, summary, clock>>

TransformWriteYamlFails ==
    /\ pcT = "writeYaml"
    /\ \E opened \in BOOLEAN :
           summaryYaml' = IF opened THEN PartialFile("yaml") ELSE summaryYaml
    /\ pcT' = "failed"
    /\ UNCHANGED <<appTestFile, reportFile, enrichedYaml, enrichedJson,
                   summaryJson, pcA, report, enriched, enriched_in, summary, clock>>

TransformWriteJson ==
    /\ pcT = "writeJson"
    /\ summaryJson' = JsonDump(summary)
    /\ pcT' = "done"
    /\ UNCHANGED <<appTestFile, reportFile, enrichedYaml, enrichedJson,
                   summaryYaml, pcA, report, enriched, enriched_in, summary, clock>>

TransformWriteJsonFails ==
    /\ pcT = "writeJson"
    /\ \E opened \in BOOLEAN :
           summaryJson' = IF opened THEN PartialFile("json") ELSE summaryJson
    /\ pcT' = "failed"
    /\ UNCHANGED <<appTestFile, reportFile, enrichedYaml, enrichedJson,
                   summaryYaml, pcA, report, enriched, enriched_in, summary, clock>>

Next ==
    \/ AnalyzeProbeReadOnly
    \/ AnalyzeProbeWritable
    \/ AnalyzeRead
    \/ AnalyzeReadFails
    \/ AnalyzeEnrich
    \/ AnalyzeEnrichFails
    \/ AnalyzeWriteYaml
    \/ AnalyzeWriteYamlFails
    \/ AnalyzeWriteJson
    \/ AnalyzeWriteJsonFails
    \/ TransformRead
    \/ TransformReadFails
    \/ TransformSummarize
    \/ TransformSummarizeFails
    \/ TransformWriteYaml
    \/ TransformWriteYamlFails
    \/ TransformWriteJson
    \/ TransformWriteJsonFails

Spec == Init /\ [][Next]_vars

\* ---------------------------------------------------------------- helpers
Terminated(pc) == pc \in {"done", "failed"}
Keys(d) == [i \in 1..Len(d) |-> d[i].key]
KeySet(d) == {d[i].key : i \in 1..Len(d)}
InputReport == reportFile.doc
FileExists(f) == f.exists
HasDoc(f) == f.exists /\ f.complete

\* The enriched documents python-analyze has produced: in memory and on disk.
EnrichedDocs ==
    (IF enriched # <<>> THEN {enriched} ELSE {})
    \cup {f.doc : f \in {g \in {enrichedYaml, enrichedJson} : HasDoc(g)}}

\* The summary documents python-transform has produced: in memory and on disk.
SummaryDocs ==
    (IF summary # <<>> THEN {summary} ELSE {})
    \cup {f.doc : f \in {g \in {summaryYaml, summaryJson} : HasDoc(g)}}

NoEntry == [count |-> -1, avgScore |-> -1, rating |-> "none"]

\* ----------------------------------------------------------------- claims

\* C1: every category of the input summary gets rating "excellent" iff its
\* avgScore >= 90, "good" iff 80 <= avgScore < 90, "fair" iff avgScore < 80;
\* the rating is always one of the three.
C1_RatingClassification ==
    \A doc \in EnrichedDocs :
        \A i \in 1..Len(InputReport["summary"]) :
            LET v == InputReport["summary"][i].val["avgScore"]
                r == DictGet(doc.categories, InputReport["summary"][i].key, NoEntry).rating
            IN /\ r \in {"excellent", "good", "fair"}
               /\ (r = "excellent") <=> (v >= 90)
               /\ (r = "good") <=> (80 <= v /\ v < 90)
               /\ (r = "fair") <=> (v < 80)

C1_Witness ==
    /\ pcA = "done"
    /\ \E i, j \in 1..Len(enriched.categories) :
           /\ enriched.categories[i].val.avgScore = 90
           /\ enriched.categories[i].val.rating = "excellent"
           /\ enriched.categories[j].val.avgScore = 80
           /\ enriched.categories[j].val.rating = "good"

\* C2: bestCategory is the first category, in the iteration order of the
\* categories mapping, whose avgScore is the maximum; its name, avgScore and
\* rating are those of that category.
C2_BestCategoryFirstMax ==
    \A doc \in SummaryDocs :
        LET cats == enriched_in.categories
            b == doc.bestCategory
        IN \E i \in 1..Len(cats) :
               /\ b.name = cats[i].key
               /\ b.avgScore = cats[i].val.avgScore
               /\ b.rating = cats[i].val.rating
               /\ \A j \in 1..Len(cats) : cats[j].val.avgScore <= cats[i].val.avgScore
               /\ \A j \in 1..(i - 1) : cats[j].val.avgScore < cats[i].val.avgScore

C2_Witness ==
    /\ pcT = "done"
    /\ LET cats == enriched_in.categories
       IN \E i, j \in 1..Len(cats) :
              /\ i < j
              /\ cats[i].val.avgScore = cats[j].val.avgScore
              /\ \A k \in 1..Len(cats) : cats[k].val.avgScore <= cats[i].val.avgScore
              /\ summaryJson.doc.bestCategory.name = cats[i].key

\* C3: once a stage has terminated, its YAML output file exists iff its JSON
\* output file exists.
C3_BothOrNeither ==
    /\ Terminated(pcA) => (FileExists(enrichedYaml) <=> FileExists(enrichedJson))
    /\ Terminated(pcT) => (FileExists(summaryYaml) <=> FileExists(summaryJson))

\* C4: for an enriched document with no categories, or with a
\* languagesByCategory key that is not a category, python-transform never
\* completes and never writes a summary file.
BadEnriched(enr) ==
    \/ enr.categories = <<>>
    \/ \E k \in KeySet(enr.languagesByCategory) : k \notin KeySet(enr.categories)

C4_RejectsBadEnriched ==
    (enriched_in # <<>> /\ BadEnriched(enriched_in)) =>
        /\ pcT # "done"
        /\ ~FileExists(summaryYaml)
        /\ ~FileExists(summaryJson)

\* C5: totalLanguages is the sum of the lengths of the language sequences of
\* the input's languagesByCategory, and it is the number of entries of the
\* original report's ranked sequence.
C5_TotalLanguages ==
    \A doc \in SummaryDocs :
        LET lbc == enriched_in.languagesByCategory
        IN /\ doc.totalLanguages =
                  Cardinality({p \in (1..Len(lbc)) \X (1..MaxRanked) :
                                   p[2] <= Len(lbc[p[1]].val)})
           /\ doc.totalLanguages = Len(InputReport["ranked"])

C5_Witness ==
    /\ pcT = "done"
    /\ Len(enriched_in.languagesByCategory) = 2
    /\ summaryJson.doc.totalLanguages = 3

\* C6: languagesByCategory has one key per category occurring in ranked, in
\* first-occurrence order, and maps it to the languages of the ranked entries
\* of that category, in ranked order.
LanguagesOf(ranked, cat) ==
    LET sub == SelectSeq(ranked, LAMBDA e : e.category = cat)
    IN [i \in 1..Len(sub) |-> sub[i].language]

FirstIndex(ranked, cat) ==
    CHOOSE i \in 1..Len(ranked) :
        /\ ranked[i].category = cat
        /\ \A j \in 1..(i - 1) : ranked[j].category # cat

C6_Grouping ==
    \A doc \in EnrichedDocs :
        LET ranked == InputReport["ranked"]
            lbc == doc.languagesByCategory
        IN /\ DistinctKeys(lbc)
           /\ KeySet(lbc) = {ranked[i].category : i \in 1..Len(ranked)}
           /\ \A k \in 1..Len(lbc) : lbc[k].val = LanguagesOf(ranked, lbc[k].key)
           /\ \A k1, k2 \in 1..Len(lbc) :
                  k1 < k2 => FirstIndex(ranked, lbc[k1].key) < FirstIndex(ranked, lbc[k2].key)

C6_Witness ==
    /\ pcA = "done"
    /\ Len(InputReport["ranked"]) = 3
    /\ InputReport["ranked"][2].category = "A"
    /\ Keys(enrichedJson.doc.languagesByCategory) = <<"B", "A">>
    /\ enrichedJson.doc.languagesByCategory[1].val = <<"Rust", "Go">>

\* C7: the enriched categories have exactly the keys of the input summary,
\* each once, each with the count and avgScore of its input entry.
C7_CategoriesBijection ==
    \A doc \in EnrichedDocs :
        LET sm == InputReport["summary"]
        IN /\ Keys(doc.categories) = Keys(sm)
           /\ \A i \in 1..Len(sm) :
                  /\ doc.categories[i].val.count = sm[i].val["count"]
                  /\ doc.categories[i].val.avgScore = sm[i].val["avgScore"]

C7_Witness ==
    /\ pcA = "done"
    /\ Keys(enrichedJson.doc.categories) = <<"B", "A">>
    /\ enrichedJson.doc.categories[1].val.count = 3
    /\ enrichedJson.doc.categories[2].val.count = 0

\* C8: for a report without summary or ranked, or with a stats entry without
\* count or avgScore, python-analyze never completes, builds no enriched
\* document and writes neither output file; once terminated it has failed.
InvalidReport(rep) ==
    \/ "summary" \notin DOMAIN rep
    \/ "ranked" \notin DOMAIN rep
    \/ \E i \in 1..Len(rep["summary"]) :
           \/ "count" \notin DOMAIN rep["summary"][i].val
           \/ "avgScore" \notin DOMAIN rep["summary"][i].val

C8_InvalidReportFails ==
    InvalidReport(InputReport) =>
        /\ pcA # "done"
        /\ Terminated(pcA) => pcA = "failed"
        /\ enriched = <<>>
        /\ enrichedYaml = NoFile
        /\ enrichedJson = NoFile

C8_Witness ==
    /\ pcA = "failed"
    /\ "summary" \in DOMAIN report
    /\ "ranked" \in DOMAIN report
    /\ Len(report["summary"]) = 2
    /\ DOMAIN report["summary"][1].val = {"count", "avgScore"}
    /\ DOMAIN report["summary"][2].val = {"avgScore"}

C10_AllCategories ==
    /\ \A doc \in SummaryDocs :
           LET cats == enriched_in.categories
               lbc == enriched_in.languagesByCategory
               all == doc.allCategories
           IN /\ Keys(all) = Keys(cats)
              /\ \A i \in 1..Len(cats) :
                     /\ all[i].val.rating = cats[i].val.rating
                     /\ all[i].val.avgScore = cats[i].val.avgScore
                     /\ \A k \in 1..Len(lbc) :
                            lbc[k].key = cats[i].key => all[i].val.languages = lbc[k].val
                     /\ cats[i].key \notin KeySet(lbc) => all[i].val.languages = <<>>
    /\ (enriched_in # <<>> /\ enriched_in.categories # <<>> /\ pcT # "derive")
           => summary # <<>>

C10_Witness ==
    /\ pcT = "done"
    /\ LET all == summaryJson.doc.allCategories
       IN \E i, j \in 1..Len(all) :
              /\ all[i].val.languages = <<>>
              /\ all[i].key \notin KeySet(enriched_in.languagesByCategory)
              /\ all[j].val.languages # <<>>
====
